---- MODULE Spec2Model ----
(***************************************************************************)
(* Model of the deepdive calibration node (ros/src/deepdive_calibrate.cc): *)
(* the session controller (TriggerCallback, TimerCallback), the ingestion  *)
(* callbacks (LightCallback, CorrectionCallback) and the batch pipeline    *)
(* (Solve).                                                                *)
(*                                                                         *)
(* Units.  The clock `now` counts whole seconds.  A pulse angle is kept in *)
(* hundredths of a degree (the code compares radians with                  *)
(* thresh_angle_ / 57.2958), a pulse duration in tenths of a microsecond   *)
(* (the code compares seconds with thresh_duration_ / 1e6).  A 6-vector    *)
(* <<x, y, z, rx, ry, rz>> is a translation and an axis-angle rotation.    *)
(* The numeric solvers (solvePnPRansac, Kabsch) are not computed: their    *)
(* results are drawn from small sets, their preconditions and the places   *)
(* where their results are stored are modelled as coded.                   *)
(***************************************************************************)
EXTENDS Integers, Sequences, FiniteSets, TLC

VARIABLES
  recording_,      \* bool recording_
  trackers_,       \* TrackerMap trackers_ : serial -> [ready]
  lighthouses_,    \* LighthouseMap lighthouses_ : serial -> [vTl, ready]
  measurements_,   \* MeasurementMap measurements_ : ros::Time -> Light
  corrections_,    \* CorrectionMap corrections_ : ros::Time -> TransformStamped
  wTv_,            \* double wTv_[6]
  timer_,          \* ros::Timer timer_ (one-shot)
  thresh_count_,   \* int thresh_count_ (parameter thresholds/count)
  res_,            \* double res_ (parameter resolution), in seconds
  now,             \* ros::Time::now()
  res,             \* the std_srvs::Trigger::Response of the last /trigger call
  warn,            \* the ROS_WARN line of the last TriggerCallback, "" if none
  solve_calls,     \* how many times the last TriggerCallback invoked Solve
  filtered,        \* what the erase loop of the last LightCallback did
  pipeline,        \* what the Solve of the step just taken computed
  scenario         \* what the environment sends and until when the clock runs

vars == <<recording_, trackers_, lighthouses_, measurements_, corrections_,
          wTv_, timer_, thresh_count_, res_, now, res, warn, solve_calls,
          filtered, pipeline, scenario>>

----------------------------------------------------------------------------
(* Bounds of the model *)

\* the clock of the session scenario runs from 0 to MaxTime
MaxTime == 2
\* the longest pulse list of the filter scenarios
MaxPulses == 3
\* the most corrections a bucket of the recorded scenarios holds
MaxCorrections == 2

----------------------------------------------------------------------------
(* Program constants *)

thresh_angle_ == 60
thresh_duration_ == 1
TimerPeriod == 1
NUM_SENSORS == 32
frame_world_ == "world"
frame_body_ == "body"
offset_ == <<0, 0, 0>>

\* thresh_angle_ / 57.2958 and thresh_duration_ / 1e6 in the model's units
AngleLimit == thresh_angle_ * 100
DurationLimit == thresh_duration_ * 10

MsgStarted == "Recording started."
MsgFound == "Recording stopped. Solution found."
MsgNotFound == "Recording stopped. Solution not found."
WarnInsufficient == "Insufficient measurements received, so cannot solve problem."

----------------------------------------------------------------------------
(* Containers *)

EmptyMap == [k \in {} |-> 0]

\* std::map::operator[] followed by an assignment
MapPut(m, k, v) == [x \in (DOMAIN m) \cup {k} |-> IF x = k THEN v ELSE m[x]]

\* std::less<std::string> on the serials that occur
SortedSerials == <<"lhA", "lhB", "lhX", "t1", "t2", "tX">>

Rank(s) == CHOOSE i \in 1..Len(SortedSerials) : SortedSerials[i] = s

RECURSIVE SerialSeq(_)
\* the keys of a std::map<std::string, ...> in iteration order
SerialSeq(S) ==
  IF S = {} THEN <<>>
  ELSE LET m == CHOOSE x \in S : \A y \in S : Rank(x) <= Rank(y)
       IN <<m>> \o SerialSeq(S \ {m})

RECURSIVE TimeSeq(_)
\* the keys of a std::map<ros::Time, ...> in iteration order
TimeSeq(S) ==
  IF S = {} THEN <<>>
  ELSE LET m == CHOOSE x \in S : \A y \in S : x <= y
       IN <<m>> \o TimeSeq(S \ {m})

\* lighthouses_.begin()->first
MapBegin(m) == SerialSeq(DOMAIN m)[1]

Zero6 == <<0, 0, 0, 0, 0, 0>>

\* the locals of Solve when the step just taken did not run it, or ran it on
\* an empty measurements_
NoPipeline ==
  [ran |-> FALSE, counted |-> EmptyMap, attempted |-> {}, poses |-> EmptyMap,
   cor |-> EmptyMap, chain |-> EmptyMap, world |-> <<>>, found |-> EmptyMap]

\* Eigen::AngleAxisd(q): angle * axis in milliradians, for the unit
\* quaternions <<w, x, y, z>> that occur (identity, half turns about an axis)
QuatToAA(q) ==
  IF q[1] = 1 THEN <<0, 0, 0>> ELSE <<3142 * q[2], 3142 * q[3], 3142 * q[4]>>

\* a 7-vector <<x, y, z, qx, qy, qz, qw>> of the configuration as a 6-vector
ConfigTransform(t) == <<t[1], t[2], t[3]>> \o QuatToAA(<<t[7], t[4], t[5], t[6]>>)

----------------------------------------------------------------------------
(* LightCallback: per-pulse filter *)

RemoveAt(s, i) == [j \in 1..(Len(s) - 1) |-> IF j < i THEN s[j] ELSE s[j + 1]]

\* variant: a pulse at the angle limit is erased too
RejectedAtLimit(p) == p.angle >= AngleLimit \/ p.duration < DurationLimit

\* the condition under which LightCallback erases a pulse
Rejected(p) == p.angle > AngleLimit \/ p.duration < DurationLimit

RECURSIVE EraseLoop(_, _, _, _, _)
\* while (it-- > data.pulses.begin()) { if (...) { it = erase(it); deleted++; } }
\* `it` is the iterator's offset from begin(); `orig` carries, for every pulse
\* still in the vector, its position in the message
EraseLoop(pulses, orig, it, deleted, seen) ==
  IF ~(it > 0)
  THEN [pulses |-> pulses, deleted |-> deleted, visited |-> seen]
  ELSE LET k == it - 1
       IN IF Rejected(pulses[k + 1])
          THEN EraseLoop(RemoveAt(pulses, k + 1), RemoveAt(orig, k + 1), k,
                         deleted + 1, Append(seen, orig[k + 1]))
          ELSE EraseLoop(pulses, orig, k, deleted, Append(seen, orig[k + 1]))

\* size_t deleted = 0; deepdive_ros::Light data = *msg; and the loop
FilterPulses(pulses) ==
  EraseLoop(pulses, [i \in 1..Len(pulses) |-> i], Len(pulses), 0, <<>>)

\* the erase loop did not run
NoFilter == [pulses |-> <<>>, deleted |-> 0, visited |-> <<>>]

\* variant: the readiness of the tracker and the lighthouse is not checked
IgnoredIfUnknown(msg) ==
  \/ ~recording_
  \/ msg.frame_id \notin DOMAIN trackers_
  \/ msg.lighthouse \notin DOMAIN lighthouses_

\* the early return of LightCallback
LightIgnored(msg) ==
  \/ ~recording_
  \/ msg.frame_id \notin DOMAIN trackers_
  \/ msg.lighthouse \notin DOMAIN lighthouses_
  \/ ~trackers_[msg.frame_id].ready
  \/ ~lighthouses_[msg.lighthouse].ready

\* variant: exactly thresh_count_ pulses are too few
TooFewOrEqual(pulses) == Len(pulses) <= thresh_count_

\* if (data.pulses.size() < thresh_count_) return;
TooFewPulses(pulses) == Len(pulses) < thresh_count_

\* measurements_[ros::Time::now()].light = data;
StoreMeasurement(m, t, data) == MapPut(m, t, data)

LightCallback(msg) ==
  /\ timer_' = [pending |-> TRUE, deadline |-> now + TimerPeriod]
  /\ IF LightIgnored(msg)
     THEN /\ filtered' = NoFilter
          /\ UNCHANGED measurements_
     ELSE LET f == FilterPulses(msg.pulses)
              data == [msg EXCEPT !.pulses = f.pulses]
          IN /\ filtered' = f
             /\ IF TooFewPulses(f.pulses)
                THEN UNCHANGED measurements_
                ELSE measurements_' = StoreMeasurement(measurements_, now, data)
  /\ pipeline' = NoPipeline
  /\ UNCHANGED <<recording_, trackers_, lighthouses_, corrections_, wTv_,
                 thresh_count_, res_, now, res, warn, solve_calls, scenario>>

----------------------------------------------------------------------------
(* CorrectionCallback *)

\* variant: one matching frame is enough
MatchesEither(tf) ==
  tf.frame_id = frame_world_ \/ tf.child_frame_id = frame_body_

\* it->header.frame_id == frame_world_ && it->child_frame_id == frame_body_
CorrectionMatches(tf) ==
  tf.frame_id = frame_world_ /\ tf.child_frame_id = frame_body_

RECURSIVE CorrectionLoop(_, _, _, _)
\* for (it = msg->transforms.begin(); ...) corrections_[ros::Time::now()] = *it;
CorrectionLoop(cors, transforms, i, t) ==
  IF i > Len(transforms) THEN cors
  ELSE IF CorrectionMatches(transforms[i])
       THEN CorrectionLoop(MapPut(cors, t, transforms[i]), transforms, i + 1, t)
       ELSE CorrectionLoop(cors, transforms, i + 1, t)

\* the corrections_ left by CorrectionCallback
CorrectionsAfter(msg) ==
  IF ~recording_ THEN corrections_
  ELSE CorrectionLoop(corrections_, msg.transforms, 1, now)

CorrectionCallback(msg) ==
  /\ corrections_' = CorrectionsAfter(msg)
  /\ pipeline' = NoPipeline
  /\ UNCHANGED <<recording_, trackers_, lighthouses_, measurements_, wTv_,
                 timer_, thresh_count_, res_, now, res, warn, solve_calls,
                 filtered, scenario>>

----------------------------------------------------------------------------
(* Solve: temporal aggregation *)

\* ros::Time(round(t.toSec() / res_) * res_), for t >= 0
Bucket(t) == ((2 * t + res_) \div (2 * res_)) * res_

\* the sensors s for which bundle[tserial][lserial][tb][s][a] holds at least
\* one angle, so that Mean succeeds on it
Sampled(meas, tr, lh, tb, a) ==
  UNION {{meas[t].pulses[i].sensor : i \in 1..Len(meas[t].pulses)} :
           t \in {u \in DOMAIN meas : /\ meas[u].frame_id = tr
                                      /\ meas[u].lighthouse = lh
                                      /\ meas[u].axis = a
                                      /\ Bucket(u) = tb}}

\* the keys of bundle[tr][lh]
BundleTimes(meas, tr, lh) ==
  {Bucket(t) : t \in {u \in DOMAIN meas : /\ meas[u].frame_id = tr
                                          /\ meas[u].lighthouse = lh
                                          /\ Len(meas[u].pulses) > 0}}

\* the correction whose values cor[tb] holds after the loop over
\* corrections_: every correction of the bucket assigns cor[t][0..5], in time
\* order, so the latest one stays
LatestIn(cors, tb) ==
  CHOOSE t \in DOMAIN cors :
    /\ Bucket(t) = tb
    /\ \A u \in DOMAIN cors : Bucket(u) = tb => u <= t

\* std::map<ros::Time, double[6]> cor
Cor(cors) ==
  [tb \in {Bucket(t) : t \in DOMAIN cors} |->
     LET last == LatestIn(cors, tb)
     IN cors[last].translation \o QuatToAA(cors[last].rotation)]

----------------------------------------------------------------------------
(* Solve: pose of every tracker in every lighthouse frame *)

\* the sensors pushed on obj/img: for (s = 0; s < NUM_SENSORS; s++) with a
\* mean on both axes
Correspondences(meas, tr, lh, tb) ==
  {s \in Sampled(meas, tr, lh, tb, 0) \cap Sampled(meas, tr, lh, tb, 1) :
     s < NUM_SENSORS}

\* variant: six sensors are enough
SixSensors(n) == n >= 6

\* if (obj.size() > 6)
EnoughSensors(n) == n > 6

\* the keys <<tracker, time, lighthouse>> the three loops visit
BundleKeys(meas, trk, lhs) ==
  UNION {UNION {{<<tr, tb, lh>> : tb \in BundleTimes(meas, tr, lh)} :
                  tr \in DOMAIN trk} : lh \in DOMAIN lhs}

\* obj.size() at every key
Counted(meas, trk, lhs) ==
  [k \in BundleKeys(meas, trk, lhs) |->
     Cardinality(Correspondences(meas, k[1], k[3], k[2]))]

\* the keys <<tracker, time, lighthouse>> for which solvePnPRansac is called
PnPKeys(meas, trk, lhs) ==
  {k \in BundleKeys(meas, trk, lhs) :
     EnoughSensors(Cardinality(Correspondences(meas, k[1], k[3], k[2])))}

\* solvePnPRansac fails, or returns one of these poses
NoPose == <<>>
PoseValues == {<<1, 0, 2, 0, 0, 0>>, <<3, 2, 2, 0, 0, 3142>>}

\* PoseMap poses, keyed <<tracker, time, lighthouse>>; pnp gives the outcome
\* of every solvePnPRansac call
Poses(pnp) == [k \in {q \in DOMAIN pnp : pnp[q] # NoPose} |-> pnp[k]]

Position(pose) == <<pose[1], pose[2], pose[3]>>

----------------------------------------------------------------------------
(* Solve: master -> slave lighthouse transforms *)

\* Kabsch<double>(pti, ptj, A, false): fails below 3 correspondences and
\* leaves the identity in A; `fit` is the transform it finds otherwise
Kabsch(corresp, fit) ==
  IF Len(corresp) < 3 THEN [ok |-> FALSE, A |-> Zero6]
  ELSE [ok |-> TRUE, A |-> fit]

\* the correspondences one tracker contributes for slave lt and master lm
ChainPairs(poses, tr, lt, lm) ==
  LET ts == TimeSeq({k[2] : k \in {q \in DOMAIN poses :
                       /\ q[1] = tr
                       /\ <<tr, q[2], lt>> \in DOMAIN poses
                       /\ <<tr, q[2], lm>> \in DOMAIN poses}})
  IN [i \in 1..Len(ts) |-> <<Position(poses[<<tr, ts[i], lt>>]),
                             Position(poses[<<tr, ts[i], lm>>])>>]

RECURSIVE ChainCorresp(_, _, _, _)
\* corresp of the slave lt, over the trackers in map order
ChainCorresp(poses, trs, lt, lm) ==
  IF trs = <<>> THEN <<>>
  ELSE ChainPairs(poses, Head(trs), lt, lm) \o ChainCorresp(poses, Tail(trs), lt, lm)

\* for (size_t i = 0; i < 6; i++) lt->second.vTl[0] = 0;
MasterReset(vTl) == [vTl EXCEPT ![1] = 0]

----------------------------------------------------------------------------
(* Solve: registration of the vive frame in the world frame *)

RECURSIVE SumPositions(_, _, _, _)
SumPositions(poses, trs, ct, lm) ==
  IF trs = <<>> THEN <<0, 0, 0>>
  ELSE LET rest == SumPositions(poses, Tail(trs), ct, lm)
           k == <<Head(trs), ct, lm>>
       IN IF k \in DOMAIN poses
          THEN <<rest[1] + poses[k][1], rest[2] + poses[k][2], rest[3] + poses[k][3]>>
          ELSE rest

\* n of the registration loop: the trackers with a pose at ct in the master
Contributors(poses, trk, ct, lm) ==
  {tr \in DOMAIN trk : <<tr, ct, lm>> \in DOMAIN poses}

\* variant: one contributing tracker is enough
AnyTracker(n, trk) == n > 0

\* if (n == trackers_.size())
AllTrackers(n, trk) == n = Cardinality(DOMAIN trk)

RECURSIVE WorldCorresp(_, _, _, _, _)
\* corresp of the registration, over the buckets cts of cor in time order; the
\* centroid (x / n, y / n, z / n) is kept as the sum and n
WorldCorresp(poses, cor, cts, trk, lm) ==
  IF cts = <<>> THEN <<>>
  ELSE LET ct == Head(cts)
           n == Cardinality(Contributors(poses, trk, ct, lm))
           rest == WorldCorresp(poses, cor, Tail(cts), trk, lm)
       IN IF AllTrackers(n, trk)
          THEN <<<<[sum |-> SumPositions(poses, SerialSeq(DOMAIN trk), ct, lm),
                    n |-> n],
                   <<cor[ct][1] + offset_[1], cor[ct][2] + offset_[2],
                     cor[ct][3] + offset_[3]>>>>>> \o rest
          ELSE rest

----------------------------------------------------------------------------
(* Solve *)

\* variant: a single measurement counts as insufficient too
FewMeasurements(meas) == Cardinality(DOMAIN meas) < 2

\* if (measurements_.empty())
MeasurementsEmpty(meas) == DOMAIN meas = {}

\* the alignments Solve runs: one per slave lighthouse, and "world"
ChainOf(poses, lt) ==
  ChainCorresp(poses, SerialSeq(DOMAIN trackers_), lt, MapBegin(lighthouses_))

WorldOf(poses) ==
  LET cor == Cor(corrections_)
  IN WorldCorresp(poses, cor, TimeSeq(DOMAIN cor), trackers_, MapBegin(lighthouses_))

\* the alignments with enough correspondences for Kabsch to fit a transform
Fitted(poses) ==
  {lt \in (DOMAIN lighthouses_) \ {MapBegin(lighthouses_)} : Len(ChainOf(poses, lt)) >= 3}
    \cup (IF Len(WorldOf(poses)) >= 3 THEN {"world"} ELSE {})

FitOf(kab, id) == IF id \in DOMAIN kab THEN kab[id] ELSE Zero6
FitValues == {<<1, 1, 0, 0, 0, 0>>, <<0, 2, 1, 0, 0, 3142>>}

\* variant: vTl and wTv_ are written only when Kabsch found a solution
KeptOnFailure(old, k) == IF k.ok THEN k.A ELSE old

\* "Write the solution": A is stored whatever Kabsch returned
StoredSolution(old, k) == k.A

\* bool Solve(): pnp and kab give the results of the numeric solvers
Solve(pnp, kab) ==
  IF MeasurementsEmpty(measurements_)
  THEN [ret |-> FALSE, warn |-> WarnInsufficient,
        lighthouses |-> lighthouses_, wTv |-> wTv_, pipeline |-> NoPipeline]
  ELSE LET poses == Poses(pnp)
           lm == MapBegin(lighthouses_)
           slaves == (DOMAIN lighthouses_) \ {lm}
           chain == [lt \in slaves |-> ChainOf(poses, lt)]
           world == WorldOf(poses)
           kc == [lt \in slaves |-> Kabsch(chain[lt], FitOf(kab, lt))]
           kw == Kabsch(world, FitOf(kab, "world"))
       IN [ret |-> TRUE, warn |-> "",
           lighthouses |->
             [lt \in DOMAIN lighthouses_ |->
                IF lt = lm
                THEN [lighthouses_[lt] EXCEPT !.vTl = MasterReset(@)]
                ELSE [lighthouses_[lt] EXCEPT !.vTl = StoredSolution(@, kc[lt])]],
           wTv |-> StoredSolution(wTv_, kw),
           pipeline |->
             [ran |-> TRUE,
              counted |-> Counted(measurements_, trackers_, lighthouses_),
              attempted |-> DOMAIN pnp, poses |-> poses,
              cor |-> Cor(corrections_), chain |-> chain, world |-> world,
              found |-> [id \in slaves \cup {"world"} |->
                           IF id = "world" THEN kw.ok ELSE kc[id].ok]]]

----------------------------------------------------------------------------
(* TriggerCallback and TimerCallback *)

\* variant: the stop branch is taken whatever the state
StopBranchAlways == TRUE

\* if (recording_) { res.success = Solve(); ...; measurements_.clear(); }
StopBranch == recording_

\* measurements_.clear();
Cleared(meas) == EmptyMap

\* variant: the stop branch clears the corrections as well
CorrectionsCleared(cors) == IF StopBranch THEN EmptyMap ELSE cors

\* corrections_ after TriggerCallback: no statement of it touches the map
CorrectionsKept(cors) == cors

\* variant: the recording flag is not toggled
Stuck(r) == r

\* recording_ = !recording_;
Toggled(r) == ~r

\* variant: a failed Solve is answered with the text of its warning
StopMessageWarns(ok) == IF ok THEN MsgFound ELSE WarnInsufficient

\* the message that goes with Solve's result
StopMessage(ok) == IF ok THEN MsgFound ELSE MsgNotFound

\* the state TriggerCallback leaves, on a response that arrives
\* default-constructed
Trigger(pnp, kab) ==
  LET r0 == [success |-> FALSE, message |-> ""]
      r1 == IF ~recording_ THEN [success |-> TRUE, message |-> MsgStarted] ELSE r0
      s == Solve(pnp, kab)
  IN IF StopBranch
     THEN [res |-> [success |-> s.ret, message |-> StopMessage(s.ret)],
           warn |-> s.warn, calls |-> 1,
           lighthouses |-> s.lighthouses, wTv |-> s.wTv,
           pipeline |-> s.pipeline,
           measurements |-> Cleared(measurements_),
           recording |-> Toggled(recording_)]
     ELSE [res |-> r1, warn |-> "", calls |-> 0,
           lighthouses |-> lighthouses_, wTv |-> wTv_,
           pipeline |-> NoPipeline,
           measurements |-> measurements_,
           recording |-> Toggled(recording_)]

\* the solvePnPRansac calls a Solve of the current buffers makes
PnPCalls ==
  IF StopBranch /\ ~MeasurementsEmpty(measurements_)
  THEN PnPKeys(measurements_, trackers_, lighthouses_)
  ELSE {}

\* the outcomes of the numeric solvers in one run of Solve
PnPOutcomes == [PnPCalls -> PoseValues \cup {NoPose}]
KabschOutcomes(pnp) ==
  [(IF PnPCalls = {} THEN {} ELSE Fitted(Poses(pnp))) -> FitValues]

\* the service /trigger
TriggerCallback ==
  /\ UNCHANGED <<trackers_, timer_, thresh_count_, res_, now, filtered,
                 scenario>>
  /\ corrections_' = CorrectionsKept(corrections_)
  /\ \E pnp \in PnPOutcomes : \E kab \in KabschOutcomes(pnp) :
       LET t == Trigger(pnp, kab)
       IN /\ recording_' = t.recording
          /\ res' = t.res
          /\ warn' = t.warn
          /\ solve_calls' = t.calls
          /\ measurements_' = t.measurements
          /\ lighthouses_' = t.lighthouses
          /\ wTv_' = t.wTv
          /\ pipeline' = t.pipeline

\* the one-shot timer expires: TriggerCallback on a response of its own
TimerCallback ==
  /\ timer_.pending
  /\ now >= timer_.deadline
  /\ timer_' = [pending |-> FALSE, deadline |-> 0]
  /\ UNCHANGED <<trackers_, thresh_count_, res_, now, res, filtered,
                 scenario>>
  /\ corrections_' = CorrectionsKept(corrections_)
  /\ \E pnp \in PnPOutcomes : \E kab \in KabschOutcomes(pnp) :
       LET t == Trigger(pnp, kab)
       IN /\ recording_' = t.recording
          /\ warn' = t.warn
          /\ solve_calls' = t.calls
          /\ measurements_' = t.measurements
          /\ lighthouses_' = t.lighthouses
          /\ wTv_' = t.wTv
          /\ pipeline' = t.pipeline

----------------------------------------------------------------------------
(* The callbacks of the shared code that mark a tracker or lighthouse ready *)

TrackerCallback(serial) ==
  /\ trackers_' = [tr \in DOMAIN trackers_ |->
                     IF tr = serial THEN [trackers_[tr] EXCEPT !.ready = TRUE]
                     ELSE trackers_[tr]]
  /\ pipeline' = NoPipeline
  /\ UNCHANGED <<recording_, lighthouses_, measurements_, corrections_, wTv_,
                 timer_, thresh_count_, res_, now, res, warn, solve_calls,
                 filtered, scenario>>

LighthouseCallback(serial) ==
  /\ lighthouses_' = [lh \in DOMAIN lighthouses_ |->
                        IF lh = serial THEN [lighthouses_[lh] EXCEPT !.ready = TRUE]
                        ELSE lighthouses_[lh]]
  /\ pipeline' = NoPipeline
  /\ UNCHANGED <<recording_, trackers_, measurements_, corrections_, wTv_,
                 timer_, thresh_count_, res_, now, res, warn, solve_calls,
                 filtered, scenario>>

\* the clock advances
Tick ==
  /\ now < scenario.horizon
  /\ now' = now + 1
  /\ pipeline' = NoPipeline
  /\ UNCHANGED <<recording_, trackers_, lighthouses_, measurements_,
                 corrections_, wTv_, timer_, thresh_count_, res_, res, warn,
                 solve_calls, filtered, scenario>>

----------------------------------------------------------------------------
(* Configurations and what the environment sends *)

Pulse(s, a, d) == [sensor |-> s, angle |-> a, duration |-> d]
Light(tr, lh, a, ps) == [frame_id |-> tr, lighthouse |-> lh, axis |-> a, pulses |-> ps]
Stamped(parent, child, z) ==
  [frame_id |-> parent, child_frame_id |-> child,
   translation |-> <<0, 0, z>>, rotation |-> <<1, 0, 0, 0>>]

\* n pulses of the sensors 0 .. n-1, all at the limits
Sweep(n) == [i \in 1..n |-> Pulse(i - 1, AngleLimit, DurationLimit)]

\* the same with the pulse of sensor b beyond the angle limit
SweepBadAngle(n, b) ==
  [i \in 1..n |-> Pulse(i - 1, IF i - 1 = b THEN AngleLimit + 1 ELSE AngleLimit,
                        DurationLimit)]

\* the same with the pulses of the sensors b and above too short
SweepShort(n, b) ==
  [i \in 1..n |-> Pulse(i - 1, AngleLimit,
                        IF i - 1 >= b THEN DurationLimit - 1 ELSE DurationLimit)]

SessionLight ==
  {Light("t1", "lhA", 0, Sweep(7)),
   Light("t1", "lhA", 1, Sweep(7)),
   Light("t1", "lhB", 0, SweepBadAngle(7, 1)),
   Light("t1", "lhB", 1, SweepShort(7, 3)),
   Light("tX", "lhA", 0, Sweep(7)),
   Light("t1", "lhX", 0, Sweep(7))}

SessionTF ==
  {[transforms |-> <<Stamped("world", "body", 1)>>],
   [transforms |-> <<Stamped("world", "truth", 1)>>],
   [transforms |-> <<Stamped("vive", "body", 1), Stamped("world", "body", 1)>>]}

\* initial transforms of the configuration, <<x, y, z, qx, qy, qz, qw>>
GuessA == <<1, 2, 3, 0, 0, 1, 0>>
GuessB == <<4, 0, 1, 0, 0, 0, 1>>

\* a recording session with two lighthouses and one tracker
SessionScenarios ==
  {[offline |-> o, thresh_count |-> 4, res |-> 2,
    trackers |-> {"t1"},
    lighthouses |-> [lh \in {"lhA", "lhB"} |-> IF lh = "lhA" THEN GuessA ELSE GuessB],
    light |-> SessionLight, tf |-> SessionTF, horizon |-> MaxTime] :
     o \in BOOLEAN}

PulseKinds ==
  {Pulse(0, AngleLimit, DurationLimit),
   Pulse(1, AngleLimit - 1, DurationLimit + 1),
   Pulse(2, AngleLimit + 1, DurationLimit),
   Pulse(3, AngleLimit, DurationLimit - 1)}

PulseSeqs == UNION {[1..n -> PulseKinds] : n \in 0..MaxPulses}

\* one message, of any pulse list, sent to an offline node at a stopped clock
FilterScenarios ==
  {[offline |-> TRUE, thresh_count |-> 2, res |-> 2,
    trackers |-> {"t1"},
    lighthouses |-> [lh \in {"lhA"} |-> GuessA],
    light |-> {Light("t1", "lhA", 0, ps)}, tf |-> {}, horizon |-> 0] :
     ps \in PulseSeqs}

\* a configuration that yields no tracker, or no lighthouse: the list is
\* empty or every entry of it is skipped as malformed
BareScenarios ==
  {[offline |-> TRUE, thresh_count |-> 4, res |-> 2,
    trackers |-> c[1],
    lighthouses |-> [lh \in c[2] |-> GuessA],
    light |-> {Light("t1", "lhA", 0, Sweep(7))}, tf |-> {}, horizon |-> 0] :
     c \in {<<{}, {"lhA"}>>, <<{"t1"}, {}>>}}

Scenarios == SessionScenarios \cup FilterScenarios \cup BareScenarios

----------------------------------------------------------------------------
(* The node *)

\* the state main() leaves before ros::spin()
Init ==
  \E sc \in Scenarios :
    /\ recording_ = sc.offline
    /\ trackers_ = [tr \in sc.trackers |-> [ready |-> FALSE]]
    /\ lighthouses_ = [lh \in DOMAIN sc.lighthouses |->
                         [vTl |-> ConfigTransform(sc.lighthouses[lh]),
                          ready |-> FALSE]]
    /\ measurements_ = EmptyMap
    /\ corrections_ = EmptyMap
    /\ wTv_ = Zero6
    /\ timer_ = [pending |-> FALSE, deadline |-> 0]
    /\ thresh_count_ = sc.thresh_count
    /\ res_ = sc.res
    /\ now = 0
    /\ res = [success |-> FALSE, message |-> ""]
    /\ warn = ""
    /\ solve_calls = 0
    /\ filtered = NoFilter
    /\ pipeline = NoPipeline
    /\ scenario = [light |-> sc.light, tf |-> sc.tf, horizon |-> sc.horizon]

Next ==
  \/ \E msg \in scenario.light : LightCallback(msg)
  \/ \E msg \in scenario.tf : CorrectionCallback(msg)
  \/ TriggerCallback
  \/ TimerCallback
  \/ \E serial \in (DOMAIN trackers_) \cup {"tX"} : TrackerCallback(serial)
  \/ \E serial \in (DOMAIN lighthouses_) \cup {"lhX"} : LighthouseCallback(serial)
  \/ Tick

Spec == Init /\ [][Next]_vars

----------------------------------------------------------------------------
(* The node late in a recording session *)

\* at a resolution of 4 s the clock readings 4b-2 .. 4b+1 round to the bucket
\* 4b; i = 0 .. 3 numbers them
SlotTime(b, i) == 4 * b - 2 + i

\* three buckets, the fewest with which an alignment can find a solution
RecordedBuckets == 1..3

\* either two lighthouses seen by one tracker or one lighthouse seen by two
\* trackers; in every bucket the first (tracker, lighthouse) pair sent both
\* sweeps, then the second
RecordedKinds ==
  {[trackers |-> {"t1"}, lighthouses |-> {"lhA", "lhB"},
    first |-> <<"t1", "lhA">>, second |-> <<"t1", "lhB">>],
   [trackers |-> {"t1", "t2"}, lighthouses |-> {"lhA"},
    first |-> <<"t1", "lhA">>, second |-> <<"t2", "lhA">>]}

\* what the second pair sent in the last bucket: both sweeps with 7 sensors,
\* both with 6, one with 7 and one with 6, or nothing
Patterns == {"full", "six", "oneaxis", "absent"}

Slots(p) ==
  {x \in RecordedBuckets \X (0..3) : ~(x[1] = 3 /\ x[2] >= 2 /\ p = "absent")}

SlotLight(kind, p, b, i) ==
  LET pair == IF i < 2 THEN kind.first ELSE kind.second
      n == IF b = 3 /\ i >= 2 /\ (p = "six" \/ (p = "oneaxis" /\ i = 3))
           THEN 6 ELSE 7
  IN Light(pair[1], pair[2], i % 2, Sweep(n))

\* measurements_ after the LightCallbacks of the three buckets
RecordedMeasurements(kind, p) ==
  [t \in {SlotTime(x[1], x[2]) : x \in Slots(p)} |->
     LET x == CHOOSE y \in Slots(p) : SlotTime(y[1], y[2]) = t
     IN SlotLight(kind, p, x[1], x[2])]

\* corrections_ after c CorrectionCallbacks in every bucket, each with a
\* translation of its own
RecordedCorrections(c) ==
  [t \in {SlotTime(x[1], x[2]) : x \in RecordedBuckets \X (0..(c - 1))} |->
     LET x == CHOOSE y \in RecordedBuckets \X (0..(c - 1)) : SlotTime(y[1], y[2]) = t
     IN Stamped("world", "body", x[1] + 2 * x[2])]

\* the state of a node that was started by /trigger at time 0, saw its
\* trackers and lighthouses become ready, stored the messages of three
\* buckets and then, at time 14, a message of an unknown tracker
InitRecorded ==
  \E kind \in RecordedKinds : \E p \in Patterns : \E c \in 0..MaxCorrections :
    /\ recording_ = TRUE
    /\ trackers_ = [tr \in kind.trackers |-> [ready |-> TRUE]]
    /\ lighthouses_ = [lh \in kind.lighthouses |->
                         [vTl |-> ConfigTransform(IF lh = "lhA" THEN GuessA ELSE GuessB),
                          ready |-> TRUE]]
    /\ measurements_ = RecordedMeasurements(kind, p)
    /\ corrections_ = RecordedCorrections(c)
    /\ wTv_ = Zero6
    /\ timer_ = [pending |-> TRUE, deadline |-> SlotTime(3, 3) + 1 + TimerPeriod]
    /\ thresh_count_ = 4
    /\ res_ = 4
    /\ now = SlotTime(3, 3) + 1
    /\ res = [success |-> TRUE, message |-> MsgStarted]
    /\ warn = ""
    /\ solve_calls = 0
    /\ filtered = NoFilter
    /\ pipeline = NoPipeline
    /\ scenario = [light |-> {Light("tX", "lhA", 0, Sweep(7))},
                   tf |-> {[transforms |-> <<Stamped("world", "truth", 1)>>]},
                   horizon |-> SlotTime(3, 3) + 2]

SpecRecorded == InitRecorded /\ [][Next]_vars

----------------------------------------------------------------------------
(* Properties *)

\* the Transform Graph: world -> vive and vive -> lighthouse for every lighthouse
TransformGraph == <<wTv_, [lh \in DOMAIN lighthouses_ |-> lighthouses_[lh].vTl]>>

\* a step of TriggerCallback, called by the service or by the timer
TriggerStep == TriggerCallback \/ TimerCallback

\* the pulses the per-pulse filter is meant to keep
Accepts(p) == p.angle <= AngleLimit /\ p.duration >= DurationLimit

\* a correction for the configured (world, body) pair
WorldBody(tf) == tf.frame_id = frame_world_ /\ tf.child_frame_id = frame_body_

\* C1: a trigger received while Idle only starts Recording: Solve is not
\* invoked, the measurement buffer, the correction buffer and the Transform
\* Graph are unchanged, the response reports success, the state is Recording.
C1_StartOnlyStarts ==
  [][/\ (TriggerStep /\ ~recording_) =>
          /\ solve_calls' = 0
          /\ measurements_' = measurements_
          /\ corrections_' = corrections_
          /\ TransformGraph' = TransformGraph
          /\ recording_' = TRUE
     /\ (TriggerCallback /\ ~recording_) => res'.success = TRUE]_vars

\* C1 happens: Recording was started from Idle after an earlier session had
\* filled the correction buffer and written the Transform Graph
C1_Witness ==
  /\ recording_
  /\ res = [success |-> TRUE, message |-> MsgStarted]
  /\ solve_calls = 0
  /\ DOMAIN measurements_ = {}
  /\ DOMAIN corrections_ # {}
  /\ lighthouses_[MapBegin(lighthouses_)].vTl[1] = 0

\* C2: a trigger received while Recording runs Solve exactly once and then,
\* whatever Solve returned, leaves the measurement buffer empty and the state
\* Idle; Solve runs only in such a step, so never twice without an Idle to
\* Recording transition in between.
C2_StopRunsOnce ==
  [][/\ (TriggerStep /\ recording_) =>
          /\ solve_calls' = 1
          /\ DOMAIN measurements_' = {}
          /\ recording_' = FALSE
     /\ (TriggerStep /\ solve_calls' > 0) =>
          /\ solve_calls' = 1
          /\ recording_
          /\ ~recording_']_vars

\* C2 happens: a session with measurements and corrections was stopped
C2_Witness ==
  /\ ~recording_
  /\ solve_calls = 1
  /\ res.success
  /\ DOMAIN measurements_ = {}
  /\ DOMAIN corrections_ # {}

\* C3 as stated: a stop-trigger on an empty measurement buffer answers with
\* success = false and an "insufficient measurements" message, and leaves the
\* Transform Graph as it was.
C3_InsufficientInResponse ==
  [][(TriggerCallback /\ recording_ /\ DOMAIN measurements_ = {}) =>
       /\ res'.success = FALSE
       /\ res'.message = WarnInsufficient
       /\ TransformGraph' = TransformGraph]_vars

\* C3 amended: a stop-trigger on an empty measurement buffer answers with
\* success = false and the message "Recording stopped. Solution not found.",
\* the "insufficient measurements" line is the warning Solve logs, and the
\* Transform Graph is left as it was.
C3_EmptyStopFails ==
  [][(TriggerCallback /\ recording_ /\ DOMAIN measurements_ = {}) =>
       /\ res'.success = FALSE
       /\ res'.message = MsgNotFound
       /\ warn' = WarnInsufficient
       /\ TransformGraph' = TransformGraph]_vars

\* C3 happens: an empty session was stopped by the service and the
\* configured transforms are still in place
C3_Witness ==
  /\ ~recording_
  /\ res = [success |-> FALSE, message |-> MsgNotFound]
  /\ warn = WarnInsufficient
  /\ solve_calls = 1
  /\ wTv_ = Zero6
  /\ \A lh \in DOMAIN lighthouses_ : lighthouses_[lh].vTl[1] # 0

\* C4: an expiry of the debounce timer is a stop-trigger: it runs Solve,
\* clears the measurement buffer and leaves the controller Idle, and never
\* moves the controller from Idle to Recording.
C4_TimerIsStop ==
  [][TimerCallback =>
       /\ solve_calls' = 1
       /\ DOMAIN measurements_' = {}
       /\ recording_' = FALSE
       /\ ~(~recording_ /\ recording_')]_vars

\* C5: after every run of Solve that passes the emptiness check, the
\* transform stored for the reference lighthouse (the first of the map) is
\* the identity: all six components are zero.
C5_ReferenceIsIdentity ==
  (solve_calls = 1 /\ warn = "") =>
     lighthouses_[MapBegin(lighthouses_)].vTl = Zero6

\* C6: a stop-trigger on a non-empty measurement buffer reports success,
\* whatever the pose solver and the rigid alignments did.
C6_NonEmptyStopSucceeds ==
  [][(TriggerCallback /\ recording_ /\ DOMAIN measurements_ # {}) =>
       res' = [success |-> TRUE, message |-> MsgFound]]_vars

\* C6 happens: a stop-trigger reported success although the alignment of the
\* slave lighthouse and the registration had too few correspondences
C6_Witness ==
  /\ ~recording_
  /\ res = [success |-> TRUE, message |-> MsgFound]
  /\ solve_calls = 1
  /\ \E lh \in (DOMAIN lighthouses_) \ {MapBegin(lighthouses_)} :
       lighthouses_[lh].vTl = Zero6
  /\ wTv_ = Zero6

\* C7: the per-pulse filter keeps exactly the pulses with angle <= the angle
\* limit and duration >= the duration limit, in their original order, and
\* examines every pulse of the message exactly once.
C7_FilterKeepsAccepted ==
  [][\A msg \in scenario.light :
       (LightCallback(msg) /\ ~LightIgnored(msg)) =>
          LET n == Len(msg.pulses)
              kept == SelectSeq(msg.pulses, Accepts)
          IN /\ filtered'.pulses = kept
             /\ filtered'.deleted = n - Len(kept)
             /\ Len(filtered'.visited) = n
             /\ \A i \in 1..n : \E j \in 1..n : filtered'.visited[j] = i]_vars

\* C7 happens: the loop erased some pulses and kept others, one of them
\* exactly at the angle limit
C7_Witness ==
  /\ filtered.deleted > 0
  /\ Len(filtered.pulses) > 1
  /\ \E i \in 1..Len(filtered.pulses) : filtered.pulses[i].angle = AngleLimit
  /\ \E i \in 1..Len(filtered.pulses) : filtered.pulses[i].angle < AngleLimit

\* C8: a message received while Recording from a known, ready tracker and
\* lighthouse is stored if and only if at least thresh_count_ pulses survive
\* the filter; otherwise the measurement buffer is unchanged.
C8_StoredIffEnoughPulses ==
  [][\A msg \in scenario.light :
       (LightCallback(msg) /\ ~LightIgnored(msg)) =>
          LET kept == SelectSeq(msg.pulses, Accepts)
          IN IF Len(kept) >= thresh_count_
             THEN /\ now \in DOMAIN measurements_'
                  /\ measurements_'[now] = [msg EXCEPT !.pulses = kept]
             ELSE measurements_' = measurements_]_vars

\* C8 happens: a message was stored with exactly thresh_count_ surviving
\* pulses
C8_Witness ==
  /\ filtered.deleted > 0
  /\ Len(filtered.pulses) = thresh_count_
  /\ \E t \in DOMAIN measurements_ : measurements_[t].pulses = filtered.pulses

\* C9: CorrectionCallback adds a pose to the correction buffer only while
\* Recording and only for the (world, body) frame pair; in every other case
\* it leaves the correction buffer unchanged.
C9_CorrectionsGated ==
  [][\A msg \in scenario.tf :
       CorrectionCallback(msg) =>
          LET hit == /\ recording_
                     /\ \E i \in 1..Len(msg.transforms) : WorldBody(msg.transforms[i])
          IN /\ ~hit => corrections_' = corrections_
             /\ hit => /\ now \in DOMAIN corrections_'
                       /\ WorldBody(corrections_'[now])
             /\ \A t \in DOMAIN corrections_ :
                  t # now => /\ t \in DOMAIN corrections_'
                             /\ corrections_'[t] = corrections_[t]
             /\ DOMAIN corrections_' \subseteq (DOMAIN corrections_) \cup {now}]_vars

\* C9 happens: the controller is Idle with corrections of an earlier
\* session in the buffer
C9_Witness ==
  /\ ~recording_
  /\ now > 0
  /\ \E t \in DOMAIN corrections_ : WorldBody(corrections_[t])

\* C10: every accepted measurement is appended to the measurement buffer:
\* accepting one adds an entry and leaves the stored ones as they are, and
\* nothing but a stop-trigger removes or changes a stored entry.
C10_MeasurementsAppended ==
  [][/\ \A msg \in scenario.light :
          (/\ LightCallback(msg)
           /\ ~LightIgnored(msg)
           /\ Len(SelectSeq(msg.pulses, Accepts)) >= thresh_count_) =>
             /\ Cardinality(DOMAIN measurements_') = Cardinality(DOMAIN measurements_) + 1
             /\ \A t \in DOMAIN measurements_ :
                  t \in DOMAIN measurements_' /\ measurements_'[t] = measurements_[t]
     /\ (\E t \in DOMAIN measurements_ :
           t \notin DOMAIN measurements_' \/ measurements_'[t] # measurements_[t]) =>
          (TriggerStep /\ recording_)]_vars

RECURSIVE PositionSum(_, _, _, _)
\* the sum of coordinate j of the poses of the trackers trs at ct in lm
PositionSum(trs, ct, lm, j) ==
  IF trs = {} THEN 0
  ELSE LET tr == CHOOSE x \in trs : TRUE
       IN pipeline.poses[<<tr, ct, lm>>][j] + PositionSum(trs \ {tr}, ct, lm, j)

\* the buckets of cor at which every configured tracker has a pose in the
\* frame of the reference lighthouse
FullInstants ==
  {ct \in DOMAIN pipeline.cor :
     \A tr \in DOMAIN trackers_ :
        <<tr, ct, MapBegin(lighthouses_)>> \in DOMAIN pipeline.poses}

\* C13: in the registration a bucket of the corrections contributes a
\* correspondence if and only if every configured tracker has a pose in the
\* reference lighthouse's frame at exactly that bucket time; the other
\* buckets contribute nothing; the centroid of a contributed correspondence
\* is the mean over all configured trackers.
C13_AllTrackersOrNothing ==
  pipeline.ran =>
     LET cts == TimeSeq(FullInstants)
         lm == MapBegin(lighthouses_)
         n == Cardinality(DOMAIN trackers_)
     IN /\ Len(pipeline.world) = Len(cts)
        /\ \A i \in 1..Len(cts) :
             /\ pipeline.world[i][1].n = n
             /\ \A j \in 1..3 :
                  /\ pipeline.world[i][1].sum[j] = PositionSum(DOMAIN trackers_, cts[i], lm, j)
                  /\ pipeline.world[i][2][j] = pipeline.cor[cts[i]][j] + offset_[j]

\* C13 happens: with two trackers configured, one bucket was skipped because
\* only one of them had a pose, and another contributed the mean of two
\* different positions
C13_Witness ==
  /\ pipeline.ran
  /\ Cardinality(DOMAIN trackers_) = 2
  /\ \E ct \in (DOMAIN pipeline.cor) \ FullInstants :
       \E tr \in DOMAIN trackers_ :
          <<tr, ct, MapBegin(lighthouses_)>> \in DOMAIN pipeline.poses
  /\ \E i \in 1..Len(pipeline.world) :
       pipeline.world[i][1] = [sum |-> <<4, 2, 4>>, n |-> 2]

\* the sensors with at least one sample on the axis a for the tracker tr and
\* the lighthouse lh among the measurements of the bucket tb
SeenOn(tr, lh, tb, a) ==
  LET ms == {t \in DOMAIN measurements_ :
               /\ Bucket(t) = tb
               /\ measurements_[t].frame_id = tr
               /\ measurements_[t].lighthouse = lh
               /\ measurements_[t].axis = a}
  IN {s \in UNION {{measurements_[t].pulses[i].sensor :
                       i \in 1..Len(measurements_[t].pulses)} : t \in ms} :
        s \in 0..(NUM_SENSORS - 1)}

RECURSIVE TranslationSum(_, _)
\* the sum of coordinate j of the translations of the corrections at ts
TranslationSum(ts, j) ==
  IF ts = {} THEN 0
  ELSE LET t == CHOOSE x \in ts : TRUE
       IN corrections_[t].translation[j] + TranslationSum(ts \ {t}, j)

\* C15: when two or more corrections round to the same bucket, the
\* translation Solve keeps for the bucket is the arithmetic mean of their
\* translations (the buffer of corrections is the one Solve read: no step
\* of TriggerCallback changes it).
C15_CorrectionsAveraged ==
  pipeline.ran =>
     \A tb \in DOMAIN pipeline.cor :
        LET ts == {t \in DOMAIN corrections_ : Bucket(t) = tb}
        IN Cardinality(ts) >= 2 =>
             \A j \in 1..3 :
                Cardinality(ts) * pipeline.cor[tb][j] = TranslationSum(ts, j)

\* C16: every stored measurement names a configured, ready tracker and
\* lighthouse and was stored while Recording; so whenever measurements_ is
\* not empty, and whenever Solve has passed its emptiness check, at least one
\* tracker and one lighthouse are configured: lighthouses_.begin() exists and
\* trackers_.size(), the divisor of the centroid, is at least 1.
C16_StoredMeasurementsAreKnown ==
  /\ \A t \in DOMAIN measurements_ :
       /\ measurements_[t].frame_id \in DOMAIN trackers_
       /\ trackers_[measurements_[t].frame_id].ready
       /\ measurements_[t].lighthouse \in DOMAIN lighthouses_
       /\ lighthouses_[measurements_[t].lighthouse].ready
  /\ DOMAIN measurements_ # {} => recording_
  /\ (DOMAIN measurements_ # {} \/ pipeline.ran) =>
       /\ Cardinality(DOMAIN trackers_) >= 1
       /\ DOMAIN lighthouses_ # {}
       /\ MapBegin(lighthouses_) \in DOMAIN lighthouses_
       /\ \A i \in 1..Len(pipeline.world) : pipeline.world[i][1].n >= 1

\* C16 happens: Solve passed the emptiness check and divided a centroid by
\* the number of trackers
C16_Witness ==
  /\ pipeline.ran
  /\ solve_calls = 1
  /\ Len(pipeline.world) >= 1
  /\ pipeline.world[1][1].n = Cardinality(DOMAIN trackers_)

====
